---- MODULE Spec2Model ----
(***************************************************************************)
(* A model of src/hnsw/utils.c of lantern: the version gate                *)
(* (VersionsMatch), the memory budget check (CheckMem), the node label     *)
(* encoding (GetUsearchLabel) and the vector normalizer (ToFloat4Array).   *)
(*                                                                         *)
(* Conventions.  A C string is the sequence of its non-zero bytes; CStr    *)
(* gives the bytes in memory, terminator included.  An unsigned integer of *)
(* any width is the sequence of its base-256 digits, least significant     *)
(* first, which is also its object representation on the little-endian     *)
(* LP64 targets the extension is built for; Wrap(x, w) is x modulo 2^(8w). *)
(* Each call of a function of utils.c is one step; the variables of a      *)
(* function hold the arguments, the return value and the messages of its   *)
(* last call.                                                              *)
(***************************************************************************)
EXTENDS Integers, Sequences, FiniteSets, TLC

VARIABLES
    \* ---- VersionsMatch
    LDB_BINARY_VERSION, \* the version string compiled into the binary
    version_checked,    \* utils.c:25
    versions_match,     \* utils.c:24
    vm_calls,           \* number of VersionsMatch calls made by the process
    n_connect,          \* number of SPI_connect calls made so far
    n_execute,          \* number of SPI_execute calls made so far
    n_finish,           \* number of SPI_finish calls made so far
    vm_snapshot,        \* ActiveSnapshotSet() as seen by the last call
    vm_spi,             \* what SPI gave the last call, as far as it looked
    vm_version,         \* the version string the last call read ("" if none)
    vm_outcome,         \* "none" | "return" | "error": how the last call ended
    vm_ret,             \* the boolean the last call returned
    vm_log,             \* the elog messages of the last call
    \* ---- CheckMem
    cm_called, cm_limit, cm_index, cm_node_size, cm_n_nodes, cm_pg_mem,
    cm_projected,       \* pg_mem + node_size * n_nodes as the code computes it
    cm_outcome, cm_log,
    \* ---- GetUsearchLabel
    gl_called, gl_itemPtr, gl_label,
    \* ---- ToFloat4Array
    fa_called, fa_arr, fa_memory, fa_outcome, fa_ret, fa_log

vmVars == <<LDB_BINARY_VERSION, version_checked, versions_match, vm_calls,
            n_connect, n_execute, n_finish, vm_snapshot, vm_spi,
            vm_version, vm_outcome, vm_ret, vm_log>>
cmVars == <<cm_called, cm_limit, cm_index, cm_node_size, cm_n_nodes,
            cm_pg_mem, cm_projected, cm_outcome, cm_log>>
glVars == <<gl_called, gl_itemPtr, gl_label>>
faVars == <<fa_called, fa_arr, fa_memory, fa_outcome, fa_ret, fa_log>>
vars == <<vmVars, cmVars, glVars, faVars>>

----------------------------------------------------------------------------
(* Bounds of the model *)

MaxLen == 3      \* longest version string
MaxCalls == 3    \* VersionsMatch calls in one behaviour
MaxItems == 2    \* longest input array of ToFloat4Array

----------------------------------------------------------------------------
(* C strings *)

\* the characters version strings are made of: '.' and '1'
Chars == {46, 49}

RECURSIVE StringsOfLen(_)
StringsOfLen(n) ==
    IF n = 0 THEN {<<>>}
    ELSE {Append(s, c) : s \in StringsOfLen(n - 1), c \in Chars}

Strings == UNION {StringsOfLen(n) : n \in 0..MaxLen}

\* the bytes of a string in memory
CStr(s) == Append(s, 0)

strlen(s) == Len(s)

\* sizeof of a string literal: its bytes and the terminator
SizeofLiteral(s) == Len(s) + 1

\* strncmp from position i on: at most n bytes, none after a terminator
RECURSIVE strncmp_from(_, _, _, _)
strncmp_from(m1, m2, i, n) ==
    IF i > n THEN 0
    ELSE IF m1[i] # m2[i] THEN (IF m1[i] < m2[i] THEN -1 ELSE 1)
    ELSE IF m1[i] = 0 THEN 0
    ELSE strncmp_from(m1, m2, i + 1, n)

strncmp(s1, s2, n) == strncmp_from(CStr(s1), CStr(s2), 1, n)

----------------------------------------------------------------------------
(* VersionsMatch, utils.c:115-193 *)

Msg(level, text, args) == [level |-> level, text |-> text, args |-> args]

MismatchWarning(version) ==
    Msg("WARNING", "LanternDB binary version (%s) does not match the version in SQL (%s)",
        <<LDB_BINARY_VERSION, version>>)

\* utils.c:167-170: the number of bytes strncmp is given
ComparisonLengthShort(version) == strlen(version)

ComparisonLength(version) ==
    IF SizeofLiteral(LDB_BINARY_VERSION) >= strlen(version)
    THEN SizeofLiteral(LDB_BINARY_VERSION)
    ELSE strlen(version)

\* utils.c:172
Comparison(version) ==
    strncmp(version, LDB_BINARY_VERSION, ComparisonLength(version))

\* what the last call saw of SPI: the result of SPI_connect, the result of
\* SPI_execute, SPI_processed and isnull; a step the call did not reach is
\* "-", -1 or FALSE
Spi(connect, spi_result, SPI_processed, isnull) ==
    [connect |-> connect, spi_result |-> spi_result,
     SPI_processed |-> SPI_processed, isnull |-> isnull]

SpiUnused == Spi("-", "-", -1, FALSE)

VmInit ==
    /\ LDB_BINARY_VERSION \in Strings
    /\ vm_spi = SpiUnused
    /\ version_checked = FALSE
    /\ versions_match = FALSE
    /\ vm_calls = 0
    /\ n_connect = 0
    /\ n_execute = 0
    /\ n_finish = 0
    /\ vm_snapshot = FALSE
    /\ vm_version = <<>>
    /\ vm_outcome = "none"
    /\ vm_ret = FALSE
    /\ vm_log = <<>>

\* the call ends in elog(ERROR, ...): nothing is returned
VmErrorMarksChecked(text) ==
    /\ vm_outcome' = "error"
    /\ vm_ret' = FALSE
    /\ vm_log' = <<Msg("ERROR", text, <<>>)>>
    /\ version_checked' = TRUE
    /\ UNCHANGED versions_match

VmError(text) ==
    /\ vm_outcome' = "error"
    /\ vm_ret' = FALSE
    /\ vm_log' = <<Msg("ERROR", text, <<>>)>>
    /\ UNCHANGED <<version_checked, versions_match>>

\* utils.c:123-126
VmNoSnapshotReturnsCached ==
    /\ version_checked' = FALSE
    /\ versions_match' = FALSE
    /\ vm_outcome' = "return"
    /\ vm_ret' = versions_match
    /\ vm_log' = <<>>
    /\ vm_version' = <<>>
    /\ vm_spi' = SpiUnused
    /\ UNCHANGED <<n_connect, n_execute, n_finish>>

VmNoSnapshotKeepsMatch ==
    /\ version_checked' = FALSE
    /\ versions_match' = versions_match
    /\ vm_outcome' = "return"
    /\ vm_ret' = TRUE
    /\ vm_log' = <<>>
    /\ vm_version' = <<>>
    /\ vm_spi' = SpiUnused
    /\ UNCHANGED <<n_connect, n_execute, n_finish>>

VmNoSnapshot ==
    /\ version_checked' = FALSE
    /\ versions_match' = FALSE
    /\ vm_outcome' = "return"
    /\ vm_ret' = TRUE
    /\ vm_log' = <<>>
    /\ vm_version' = <<>>
    /\ vm_spi' = SpiUnused
    /\ UNCHANGED <<n_connect, n_execute, n_finish>>

\* utils.c:128-129
VmCachedReturnsTrue ==
    /\ vm_outcome' = "return"
    /\ vm_ret' = TRUE
    /\ vm_log' = <<>>
    /\ vm_version' = <<>>
    /\ vm_spi' = SpiUnused
    /\ UNCHANGED <<version_checked, versions_match, n_connect, n_execute, n_finish>>

VmCached ==
    /\ vm_outcome' = "return"
    /\ vm_ret' = versions_match
    /\ vm_log' = <<>>
    /\ vm_version' = <<>>
    /\ vm_spi' = SpiUnused
    /\ UNCHANGED <<version_checked, versions_match, n_connect, n_execute, n_finish>>

\* utils.c:164-191
VmCompareSilent(version) ==
    LET matched == IF Comparison(version) = 0 THEN TRUE ELSE versions_match
    IN  /\ versions_match' = matched
        /\ version_checked' = TRUE
        /\ n_finish' = n_finish + 1
        /\ vm_log' = <<>>
        /\ vm_outcome' = "return"
        /\ vm_ret' = matched

VmCompare(version) ==
    LET matched == IF Comparison(version) = 0 THEN TRUE ELSE versions_match
    IN  /\ versions_match' = matched
        /\ version_checked' = TRUE
        /\ n_finish' = n_finish + 1
        /\ vm_log' = IF ~matched THEN <<MismatchWarning(version)>> ELSE <<>>
        /\ vm_outcome' = "return"
        /\ vm_ret' = matched

\* utils.c:140-191
VmQuery(connect, spi_result, SPI_processed, isnull, version) ==
    /\ n_connect' = n_connect + 1
    /\ IF connect # "SPI_OK_CONNECT"
       THEN /\ VmError("could not connect to executor to check binary version")
            /\ vm_spi' = Spi(connect, "-", -1, FALSE)
            /\ vm_version' = <<>>
            /\ UNCHANGED <<n_execute, n_finish>>
       ELSE /\ n_execute' = n_execute + 1
            /\ IF spi_result # "SPI_OK_SELECT"
               THEN /\ VmError("SPI_execute returned %s for %s")
                    /\ vm_spi' = Spi(connect, spi_result, -1, FALSE)
                    /\ vm_version' = <<>>
                    /\ UNCHANGED n_finish
               ELSE IF SPI_processed # 1
               THEN /\ VmError("SQL version query did not return any values")
                    /\ vm_spi' = Spi(connect, spi_result, SPI_processed, FALSE)
                    /\ vm_version' = <<>>
                    /\ UNCHANGED n_finish
               ELSE IF isnull
               THEN /\ VmError("Version query returned null")
                    /\ vm_spi' = Spi(connect, spi_result, SPI_processed, isnull)
                    /\ vm_version' = <<>>
                    /\ UNCHANGED n_finish
               ELSE /\ vm_spi' = Spi(connect, spi_result, SPI_processed, isnull)
                    /\ vm_version' = version
                    /\ VmCompare(version)

\* utils.c:115-193, one call
VersionsMatch(snapshot, connect, spi_result, SPI_processed, isnull, version) ==
    /\ vm_calls < MaxCalls
    /\ vm_calls' = vm_calls + 1
    /\ vm_snapshot' = snapshot
    /\ UNCHANGED LDB_BINARY_VERSION
    /\ IF ~snapshot THEN VmNoSnapshot
       ELSE IF version_checked THEN VmCached
       ELSE VmQuery(connect, spi_result, SPI_processed, isnull, version)

ConnectResults == {"SPI_OK_CONNECT", "SPI_ERROR_CONNECT"}
ExecuteResults == {"SPI_OK_SELECT", "SPI_ERROR_TRANSACTION"}
RowCounts == 0..2

VmCall ==
    \E snapshot \in BOOLEAN, connect \in ConnectResults,
       spi_result \in ExecuteResults, SPI_processed \in RowCounts,
       isnull \in BOOLEAN, version \in Strings :
        VersionsMatch(snapshot, connect, spi_result, SPI_processed, isnull, version)

----------------------------------------------------------------------------
(* Unsigned integers as base-256 digits, least significant first *)

Max(a, b) == IF a >= b THEN a ELSE b

Digit(x, i) == IF i <= Len(x) THEN x[i] ELSE 0

\* the digits of a number TLC can hold
RECURSIVE ToNat(_)
ToNat(n) == IF n = 0 THEN <<>> ELSE <<n % 256>> \o ToNat(n \div 256)

RECURSIVE AddDigits(_, _, _, _, _)
AddDigits(a, b, i, n, carry) ==
    IF i > n THEN <<>>
    ELSE LET s == Digit(a, i) + Digit(b, i) + carry
         IN  <<s % 256>> \o AddDigits(a, b, i + 1, n, s \div 256)

\* a + b, exactly
NatAdd(a, b) == AddDigits(a, b, 1, Max(Len(a), Len(b)) + 1, 0)

RECURSIVE MulDigits(_, _, _, _)
MulDigits(a, d, i, carry) ==
    IF i > Len(a) + 1 THEN <<>>
    ELSE LET p == Digit(a, i) * d + carry
         IN  <<p % 256>> \o MulDigits(a, d, i + 1, p \div 256)

\* a * b, exactly: a * b[j] + 256 * (a * b[j+1..])
RECURSIVE MulFrom(_, _, _)
MulFrom(a, b, j) ==
    IF j > Len(b) THEN <<>>
    ELSE NatAdd(MulDigits(a, b[j], 1, 0), <<0>> \o MulFrom(a, b, j + 1))

NatMul(a, b) == MulFrom(a, b, 1)

RECURSIVE GtFrom(_, _, _)
GtFrom(a, b, i) ==
    IF i = 0 THEN FALSE
    ELSE IF Digit(a, i) # Digit(b, i) THEN Digit(a, i) > Digit(b, i)
    ELSE GtFrom(a, b, i - 1)

\* a > b
NatGt(a, b) == GtFrom(a, b, Max(Len(a), Len(b)))

\* x modulo 2^(8w), as an object of w bytes
Wrap(x, w) == [i \in 1..w |-> Digit(x, i)]

\* widths in bytes of the C types involved
SizeofUint16 == 2
SizeofUint32 == 4
SizeofSize == 8
SizeofUnsignedLong == 8

----------------------------------------------------------------------------
(* CheckMem, utils.c:66-90 *)

\* utils.c:87, left side: node_size * n_nodes in uint32, the sum in Size
Projected(pg_mem, node_size, n_nodes) ==
    Wrap(NatAdd(pg_mem, Wrap(NatMul(node_size, n_nodes), SizeofUint32)), SizeofSize)

\* utils.c:87, right side: (uint32)limit * 1024UL
LimitBytes(limit) ==
    Wrap(NatMul(Wrap(limit, SizeofUint32), ToNat(1024)), SizeofUnsignedLong)

\* utils.c:87
OverLimit(pg_mem, node_size, n_nodes, limit) ==
    NatGt(Projected(pg_mem, node_size, n_nodes), LimitBytes(limit))

CmInit ==
    /\ cm_called = FALSE
    /\ cm_limit = <<>>
    /\ cm_index = "NULL"
    /\ cm_node_size = Wrap(<<>>, SizeofUint32)
    /\ cm_n_nodes = Wrap(<<>>, SizeofUint32)
    /\ cm_pg_mem = Wrap(<<>>, SizeofSize)
    /\ cm_projected = Wrap(<<>>, SizeofSize)
    /\ cm_outcome = "none"
    /\ cm_log = <<>>

\* utils.c:66-90, one call.  node_bytes is what UsearchNodeBytes returns for
\* the index (utils.c:75), pg_mem what MemoryContextMemAllocated reports
\* (utils.c:79; 0 before PostgreSQL 13, utils.c:81).
CheckMem(limit, index, node_bytes, n_nodes, pg_mem, msg) ==
    LET node_size == IF index # "NULL" THEN node_bytes ELSE Wrap(<<>>, SizeofUint32)
    IN  /\ cm_called' = TRUE
        /\ cm_limit' = limit
        /\ cm_index' = index
        /\ cm_node_size' = node_size
        /\ cm_n_nodes' = n_nodes
        /\ cm_pg_mem' = pg_mem
        /\ cm_projected' = Projected(pg_mem, node_size, n_nodes)
        /\ cm_log' = IF OverLimit(pg_mem, node_size, n_nodes, limit)
                     THEN <<Msg("WARNING", "%s", <<msg>>)>>
                     ELSE <<>>
        /\ cm_outcome' = "return"

U32(n) == Wrap(ToNat(n), SizeofUint32)
U32Max == <<255, 255, 255, 255>>

\* budgets in KiB, as work_mem and maintenance_work_mem give them:
\* 64 KiB, 4 GiB, and the largest int
Limits == {ToNat(64), ToNat(4194304), ToNat(2147483647)}
\* per-node sizes UsearchNodeBytes can return
NodeBytes == {U32(1024), U32(65536), U32Max}
NodeCounts == {U32(0), U32(1), U32(65535), U32(65536), U32Max}
\* allocated bytes: 0 and 4 MiB
Allocated == {Wrap(<<>>, SizeofSize), Wrap(ToNat(4194304), SizeofSize)}
Indexes == {"NULL", "index"}
Messages == {"index size exceeded work_mem"}

CmCall ==
    \E limit \in Limits, index \in Indexes, node_bytes \in NodeBytes,
       n_nodes \in NodeCounts, pg_mem \in Allocated, msg \in Messages :
        CheckMem(limit, index, node_bytes, n_nodes, pg_mem, msg)

----------------------------------------------------------------------------
(* GetUsearchLabel, utils.c:59-64 *)

SizeofItemPointerData == 6
SizeofUsearchLabel == 8

\* the values a 16-bit field of an ItemPointerData takes in the model
Uint16Samples == {0, 1, 255, 256, 65535}

ItemPointers ==
    [bi_hi : Uint16Samples, bi_lo : Uint16Samples, ip_posid : Uint16Samples]

\* the six bytes of an ItemPointerData: ip_blkid.bi_hi, ip_blkid.bi_lo, ip_posid
ItemPointerBytes(p) ==
    Wrap(ToNat(p.bi_hi), SizeofUint16) \o Wrap(ToNat(p.bi_lo), SizeofUint16)
        \o Wrap(ToNat(p.ip_posid), SizeofUint16)

\* memcpy(dst, src, n) on the bytes of two objects
memcpy(dst, src, n) == [i \in 1..Len(dst) |-> IF i <= n THEN src[i] ELSE dst[i]]

\* utils.c:61-63
GetUsearchLabelFourBytes(itemPtr) ==
    memcpy(Wrap(<<>>, SizeofUsearchLabel), ItemPointerBytes(itemPtr), 4)

GetUsearchLabel(itemPtr) ==
    memcpy(Wrap(<<>>, SizeofUsearchLabel), ItemPointerBytes(itemPtr),
           SizeofItemPointerData)

GlInit ==
    /\ gl_called = FALSE
    /\ gl_itemPtr = [bi_hi |-> 0, bi_lo |-> 0, ip_posid |-> 0]
    /\ gl_label = Wrap(<<>>, SizeofUsearchLabel)

GlCall ==
    \E itemPtr \in ItemPointers :
        /\ gl_called' = TRUE
        /\ gl_itemPtr' = itemPtr
        /\ gl_label' = GetUsearchLabel(itemPtr)

----------------------------------------------------------------------------
(* ToFloat4Array, utils.c:94-111 *)

FLOAT4OID == 700
INT4OID == 23
TEXTOID == 25

\* single precision: 24 bits of significand
Float4Precision == 24

RECURSIVE Pow2(_)
Pow2(n) == IF n = 0 THEN 1 ELSE 2 * Pow2(n - 1)

Abs(x) == IF x < 0 THEN -x ELSE x

\* the least e with m < 2^(Float4Precision + e)
RECURSIVE ExponentFrom(_, _)
ExponentFrom(m, e) ==
    IF m \div Pow2(e) < Pow2(Float4Precision) THEN e ELSE ExponentFrom(m, e + 1)

\* a float4 with an integer value: (-1)^neg * mant * 2^exp, mant < 2^24
Float4(neg, mant, exp) == [neg |-> neg, mant |-> mant, exp |-> exp]

\* utils.c:105: the conversion of an int32 to float4, to nearest, ties to even
Int32ToFloat4(x) ==
    LET m == Abs(x)
        e == ExponentFrom(m, 0)
        q == m \div Pow2(e)
        r == m % Pow2(e)
        half == IF e = 0 THEN 0 ELSE Pow2(e - 1)
        up == e > 0 /\ (r > half \/ (r = half /\ q % 2 = 1))
        q1 == IF up THEN q + 1 ELSE q
    IN  IF q1 = Pow2(Float4Precision)
        THEN Float4(x < 0, Pow2(Float4Precision - 1), e + 1)
        ELSE Float4(x < 0, q1, e)

\* ArrayGetNItems(ndim, dims), as utils.c:100 uses it
RECURSIVE ArrayGetNItems(_, _)
ArrayGetNItems(ndim, dims) ==
    IF ndim <= 0 THEN 0
    ELSE IF ndim = 1 THEN dims[1]
    ELSE dims[ndim] * ArrayGetNItems(ndim - 1, dims)

\* addresses: the data of the input array, and the block palloc returns
ArrDataPtr == 1
PallocPtr == 2
NoPtr == 0

\* utils.c:104-106
ConvertCellsShort(typed_src, arr_dim) ==
    [i \in 1..arr_dim |-> IF i < arr_dim THEN Int32ToFloat4(typed_src[i]) ELSE Float4(FALSE, 0, 0)]

ConvertCells(typed_src, arr_dim) ==
    [i \in 1..arr_dim |-> Int32ToFloat4(typed_src[i])]

FaInit ==
    /\ fa_called = FALSE
    /\ fa_arr = [elemtype |-> FLOAT4OID, dims |-> <<>>, data |-> <<>>]
    /\ fa_memory = (ArrDataPtr :> <<>>)
    /\ fa_outcome = "none"
    /\ fa_ret = NoPtr
    /\ fa_log = <<>>

\* utils.c:94-111, one call on an array whose data is at ArrDataPtr
ToFloat4Array(arr) ==
    LET element_type == arr.elemtype
        before == (ArrDataPtr :> arr.data)
    IN  /\ fa_called' = TRUE
        /\ fa_arr' = arr
        /\ IF element_type = FLOAT4OID
           THEN /\ fa_memory' = before
                /\ fa_outcome' = "return"
                /\ fa_ret' = ArrDataPtr
                /\ fa_log' = <<>>
           ELSE IF element_type = INT4OID
           THEN LET arr_dim == ArrayGetNItems(Len(arr.dims), arr.dims)
                IN  /\ fa_memory' = before @@ (PallocPtr :> ConvertCells(arr.data, arr_dim))
                    /\ fa_outcome' = "return"
                    /\ fa_ret' = PallocPtr
                    /\ fa_log' = <<>>
           ELSE /\ fa_memory' = before
                /\ fa_outcome' = "error"
                /\ fa_ret' = NoPtr
                /\ fa_log' = <<Msg("ERROR", "unsupported element type: %d", <<element_type>>)>>

\* the 4-byte cells of the input arrays, as int32 values
CellSamples == {0, 3, -1, 16777217, 16777219, 33554431}

Shapes == {<<>>} \cup {<<n>> : n \in 1..MaxItems} \cup {<<1, n>> : n \in 1..MaxItems}

ElementTypes == {FLOAT4OID, INT4OID, TEXTOID}

Arrays ==
    UNION {[elemtype : ElementTypes, dims : {d},
            data : [1..ArrayGetNItems(Len(d), d) -> CellSamples]] : d \in Shapes}

FaCall == \E arr \in Arrays : ToFloat4Array(arr)

----------------------------------------------------------------------------
(* Specifications: the process, and each function alone *)

Init == VmInit /\ CmInit /\ GlInit /\ FaInit

Next ==
    \/ VmCall /\ UNCHANGED <<cmVars, glVars, faVars>>
    \/ CmCall /\ UNCHANGED <<vmVars, glVars, faVars>>
    \/ GlCall /\ UNCHANGED <<vmVars, cmVars, faVars>>
    \/ FaCall /\ UNCHANGED <<vmVars, cmVars, glVars>>

Spec == Init /\ [][Next]_vars

\* the binary of the runs that do not call VersionsMatch: version "1.1"
OneBinary == Init /\ LDB_BINARY_VERSION = <<49, 46, 49>>

VmNext == VmCall /\ UNCHANGED <<cmVars, glVars, faVars>>
SpecVersionsMatch == Init /\ [][VmNext]_vars

CmNext == CmCall /\ UNCHANGED <<vmVars, glVars, faVars>>
SpecCheckMem == OneBinary /\ [][CmNext]_vars

GlNext == GlCall /\ UNCHANGED <<vmVars, cmVars, faVars>>
SpecGetUsearchLabel == OneBinary /\ [][GlNext]_vars

FaNext == FaCall /\ UNCHANGED <<vmVars, cmVars, glVars>>
SpecToFloat4Array == OneBinary /\ [][FaNext]_vars

----------------------------------------------------------------------------
(* The version gate: claims C1-C5 and C10, under SpecVersionsMatch *)

\* the last call reached the comparison: connected, one non-null row selected
WellFormed(spi) ==
    /\ spi.connect = "SPI_OK_CONNECT"
    /\ spi.spi_result = "SPI_OK_SELECT"
    /\ spi.SPI_processed = 1
    /\ ~spi.isnull

\* the last call went to SPI at all
Asked(spi) == spi.connect # "-"

Warnings(log) == {i \in 1..Len(log) : log[i].level = "WARNING"}

\* byte i of a string, 0 from its terminator on
ByteAt(str, i) == IF i <= Len(str) THEN str[i] ELSE 0

IdenticalOver(s1, s2, n) == \A i \in 1..n : ByteAt(s1, i) = ByteAt(s2, i)

IsProperPrefix(s1, s2) == Len(s1) < Len(s2) /\ SubSeq(s2, 1, Len(s1)) = s1

\* C1: once the state is Checked, a call made with an active snapshot returns
\* the cached versions_match, makes no SPI_connect and no SPI_execute call and
\* leaves version_checked and versions_match as they were; the state leaves
\* Checked only in a call made with no active snapshot.
C1_CachedWhileChecked ==
    [][/\ (version_checked /\ vm_snapshot') =>
            /\ vm_outcome' = "return"
            /\ vm_ret' = versions_match
            /\ n_connect' = n_connect
            /\ n_execute' = n_execute
            /\ version_checked' = version_checked
            /\ versions_match' = versions_match
       /\ (version_checked /\ ~version_checked') => ~vm_snapshot'
      ]_vmVars

\* a cached call in Checked-Mismatch: the one query was made two calls ago
C1_Witness ==
    /\ vm_calls = 3
    /\ n_execute = 1
    /\ n_finish = 1
    /\ version_checked
    /\ ~versions_match
    /\ vm_snapshot
    /\ vm_spi = SpiUnused
    /\ vm_outcome = "return"
    /\ ~vm_ret

\* C2: a call made with no active snapshot returns true, makes no query, emits
\* nothing, and leaves version_checked = versions_match = false, whatever the
\* state before it.
C2_SoftPass ==
    [][~vm_snapshot' =>
            /\ vm_outcome' = "return"
            /\ vm_ret' = TRUE
            /\ n_connect' = n_connect
            /\ n_execute' = n_execute
            /\ vm_log' = <<>>
            /\ version_checked' = FALSE
            /\ versions_match' = FALSE
      ]_vmVars

\* a soft pass right after a completed check
C2_Witness ==
    /\ vm_calls = 2
    /\ n_finish = 1
    /\ ~vm_snapshot
    /\ vm_outcome = "return"
    /\ vm_ret
    /\ ~version_checked

\* C3: a call that compares records a match exactly when the queried and the
\* compiled string are identical over max(len(queried), len(compiled)) bytes;
\* an empty string, a proper prefix or a proper extension of the compiled
\* string never matches.
C3_MatchIffIdentical ==
    WellFormed(vm_spi) =>
        /\ versions_match <=>
               IdenticalOver(vm_version, LDB_BINARY_VERSION,
                             Max(Len(vm_version), Len(LDB_BINARY_VERSION)))
        /\ versions_match <=> (vm_version = LDB_BINARY_VERSION)
        /\ IsProperPrefix(vm_version, LDB_BINARY_VERSION) => ~versions_match
        /\ IsProperPrefix(LDB_BINARY_VERSION, vm_version) => ~versions_match

\* the queried string is a non-empty proper prefix of the compiled one
C3_Witness ==
    /\ WellFormed(vm_spi)
    /\ vm_version # <<>>
    /\ IsProperPrefix(vm_version, LDB_BINARY_VERSION)
    /\ version_checked
    /\ ~versions_match

\* C4: a call in state Unchecked with an active snapshot and a well-formed
\* result makes exactly one query, then is Checked and returns true with no
\* warning if the versions are equal, and otherwise returns false with exactly
\* one warning naming both versions; a soft-pass or cached call never warns.
C4_CheckOnce ==
    [][/\ (~version_checked /\ vm_snapshot' /\ WellFormed(vm_spi')) =>
            /\ n_connect' = n_connect + 1
            /\ n_execute' = n_execute + 1
            /\ version_checked'
            /\ vm_outcome' = "return"
            /\ IF vm_version' = LDB_BINARY_VERSION
               THEN versions_match' /\ vm_ret' /\ vm_log' = <<>>
               ELSE /\ ~versions_match'
                    /\ ~vm_ret'
                    /\ vm_log' = <<MismatchWarning(vm_version')>>
                    /\ vm_log'[1].level = "WARNING"
                    /\ vm_log'[1].args = <<LDB_BINARY_VERSION, vm_version'>>
       /\ (version_checked \/ ~vm_snapshot') => Warnings(vm_log') = {}
      ]_vmVars

\* the first call of the process found another version and warned
C4_Witness ==
    /\ vm_calls = 1
    /\ n_execute = 1
    /\ WellFormed(vm_spi)
    /\ vm_version # LDB_BINARY_VERSION
    /\ version_checked
    /\ ~versions_match
    /\ vm_outcome = "return"
    /\ ~vm_ret
    /\ Len(vm_log) = 1

\* C5: a call in state Unchecked with an active snapshot that meets a failed
\* connection, a result other than SPI_OK_SELECT, a row count other than 1 or a
\* null value ends in an error, returns nothing, emits no warning, leaves the
\* state at {false, false} and makes at most one query; the next call with a
\* snapshot goes to SPI again.
C5_FatalPaths ==
    [][/\ (~version_checked /\ vm_snapshot' /\ ~WellFormed(vm_spi')) =>
            /\ Asked(vm_spi')
            /\ vm_outcome' = "error"
            /\ Warnings(vm_log') = {}
            /\ Len(vm_log') = 1
            /\ version_checked' = FALSE
            /\ versions_match' = FALSE
            /\ versions_match = FALSE
            /\ n_connect' = n_connect + 1
            /\ n_execute' <= n_execute + 1
            /\ n_finish' = n_finish
       /\ (vm_outcome = "error" /\ vm_snapshot') =>
            /\ n_connect' = n_connect + 1
            /\ vm_spi'.connect = "SPI_OK_CONNECT" => n_execute' = n_execute + 1
      ]_vmVars

\* two rows made the first call fail; the second call queried again and checked
C5_Witness ==
    /\ vm_calls = 2
    /\ n_execute = 2
    /\ n_finish = 1
    /\ WellFormed(vm_spi)
    /\ version_checked
    /\ vm_outcome = "return"

\* C10: versions_match implies version_checked, at process start and after
\* every call, however it ended.
C10_MatchImpliesChecked ==
    /\ versions_match => version_checked
    /\ <<version_checked, versions_match>> \in
           {<<FALSE, FALSE>>, <<TRUE, TRUE>>, <<TRUE, FALSE>>}

\* a match was recorded, a soft pass reset it, and then a check failed
C10_Witness ==
    /\ vm_calls = 3
    /\ n_finish = 1
    /\ n_connect = 2
    /\ vm_outcome = "error"
    /\ ~version_checked
    /\ ~versions_match

----------------------------------------------------------------------------
(* The memory budget check: claims C6 and C7, under SpecCheckMem *)

Warned == Warnings(cm_log) # {}

\* allocated + node_size * n_nodes and budget_kib * 1024 as exact integers
ExactProjected == NatAdd(cm_pg_mem, NatMul(cm_node_size, cm_n_nodes))
ExactBudget == NatMul(cm_limit, ToNat(1024))

\* C6: CheckMem warns if and only if allocated + node_size * n_nodes, as exact
\* integers, exceeds budget_kib * 1024, and returns normally in both cases.
C6_WarnsIffOverBudget ==
    cm_called =>
        /\ cm_outcome = "return"
        /\ Warned <=> NatGt(ExactProjected, ExactBudget)
        /\ cm_index = "NULL" => cm_node_size = Wrap(<<>>, SizeofUint32)

\* C7: with the index, the budget, the per-node size and the allocated memory
\* the same in two calls, the call with more nodes projects strictly more
\* bytes, and warns if the call with fewer nodes warned.
C7_MonotoneInNodes ==
    [][(/\ cm_called
        /\ cm_index' # "NULL"
        /\ cm_index' = cm_index
        /\ cm_limit' = cm_limit
        /\ cm_node_size' = cm_node_size
        /\ cm_pg_mem' = cm_pg_mem
        /\ NatGt(cm_n_nodes', cm_n_nodes)) =>
            /\ NatGt(cm_projected', cm_projected)
            /\ Warned => Warned'
      ]_cmVars

----------------------------------------------------------------------------
(* The node label: claim C8, under SpecGetUsearchLabel *)

\* the ItemPointerData whose bytes are the six low-order bytes of a label
ItemPointerOfLabel(label) ==
    [bi_hi |-> label[1] + 256 * label[2],
     bi_lo |-> label[3] + 256 * label[4],
     ip_posid |-> label[5] + 256 * label[6]]

\* C8: the label's six low-order bytes are the identifier's bytes, its two
\* high-order bytes are zero (label < 2^48), the identifier is read back from
\* the label, and the labels of two distinct identifiers differ.
C8_LabelInjective ==
    [][gl_called' =>
            /\ Len(gl_label') = SizeofUsearchLabel
            /\ SubSeq(gl_label', 1, 6) = ItemPointerBytes(gl_itemPtr')
            /\ gl_label'[7] = 0
            /\ gl_label'[8] = 0
            /\ ItemPointerOfLabel(gl_label') = gl_itemPtr'
            /\ (gl_called /\ gl_itemPtr' # gl_itemPtr) => gl_label' # gl_label
            /\ (gl_called /\ gl_itemPtr' = gl_itemPtr) => gl_label' = gl_label
      ]_glVars

\* block 0xFFFF0100, offset 255
C8_Witness ==
    /\ gl_called
    /\ gl_itemPtr = [bi_hi |-> 65535, bi_lo |-> 256, ip_posid |-> 255]
    /\ gl_label = <<255, 255, 0, 1, 255, 0, 0, 0>>

----------------------------------------------------------------------------
(* The vector normalizer: claim C9, under SpecToFloat4Array *)

\* the value of a float4 of the model, an integer
Float4Value(f) == (IF f.neg THEN -1 ELSE 1) * f.mant * Pow2(f.exp)

\* the distance between two representable float4 values around x
Spacing(x) == Pow2(ExponentFrom(Abs(x), 0))

\* f is the float4 nearest to x, the one with the even significand in a tie
NearestFloat4(f, x) ==
    LET d == Abs(Float4Value(f) - x)
    IN  /\ f.mant < Pow2(Float4Precision)
        /\ 2 * d <= Spacing(x)
        /\ (d > 0 /\ 2 * d = Spacing(x)) => (f.mant % 2 = 0)
        /\ Abs(x) <= Pow2(Float4Precision) => d = 0
        /\ x # 0 => f.neg = (x < 0)

NothingAllocated == DOMAIN fa_memory = {ArrDataPtr}

\* what claim C9 says of the 4-byte float and of the unsupported element types
C9_OtherTypes ==
    /\ fa_memory[ArrDataPtr] = fa_arr.data
    /\ fa_arr.elemtype = FLOAT4OID =>
            /\ fa_outcome = "return"
            /\ fa_ret = ArrDataPtr
            /\ NothingAllocated
            /\ fa_log = <<>>
    /\ fa_arr.elemtype \notin {FLOAT4OID, INT4OID} =>
            /\ fa_outcome = "error"
            /\ fa_ret = NoPtr
            /\ NothingAllocated
            /\ Len(fa_log) = 1
            /\ fa_log[1].level = "ERROR"
            /\ fa_log[1].args = <<fa_arr.elemtype>>

\* what claim C9 says of the 4-byte integers, but for the elements' values
C9_Int4Shape ==
    fa_arr.elemtype = INT4OID =>
        /\ fa_outcome = "return"
        /\ fa_ret = PallocPtr
        /\ DOMAIN fa_memory = {ArrDataPtr, PallocPtr}
        /\ Len(fa_memory[fa_ret]) = Len(fa_arr.data)
        /\ fa_log = <<>>

\* C9 as stated: a float4 array comes back as its own storage, unsupported
\* types fail naming the type with nothing allocated, and element i of the
\* array made for 4-byte integers is the numeric value of input element i.
C9_ExactValues ==
    fa_called =>
        /\ C9_OtherTypes
        /\ C9_Int4Shape
        /\ fa_arr.elemtype = INT4OID =>
               \A i \in 1..Len(fa_arr.data) :
                   Float4Value(fa_memory[fa_ret][i]) = fa_arr.data[i]

\* C9 as amended: element i of the array made for 4-byte integers is the
\* float4 nearest to input element i (ties to even), which is the input's
\* value whenever its magnitude is at most 2^24.
C9_NearestValues ==
    fa_called =>
        /\ C9_OtherTypes
        /\ C9_Int4Shape
        /\ fa_arr.elemtype = INT4OID =>
               \A i \in 1..Len(fa_arr.data) :
                   NearestFloat4(fa_memory[fa_ret][i], fa_arr.data[i])

\* {3, 16777219} as integers: 3.0 and, by the tie to even, 16777220.0
C9_Witness ==
    /\ fa_called
    /\ fa_arr.elemtype = INT4OID
    /\ fa_arr.data = <<3, 16777219>>
    /\ fa_outcome = "return"
    /\ fa_memory[fa_ret] = <<Float4(FALSE, 3, 0), Float4(FALSE, 8388610, 1)>>

====
